---- MODULE Spec2Model ----
(***************************************************************************)
(* Walk controller of the SNMP snapshot data recorder                      *)
(* (snmpsim/commands/cmd2rec.py): the response callback cbFun, the record  *)
(* formatter SnmprecRecordMixIn.formatValue, the walk state cbCtx and the  *)
(* shutdown block of main().                                               *)
(*                                                                         *)
(* An OID is a sequence of naturals.  The empty sequence stands for        *)
(* "stopOID = None": `stopOID and oid >= stopOID` is false for both.       *)
(***************************************************************************)
EXTENDS Integers, Sequences, FiniteSets, TLC

\* ------------------------------------------------------------------ bounds

\* most retries --continue-on-errors is given in a run
MaxBudget == 2
\* most responses the agent gives in a run
MaxResponses == 3
\* most rows of one GETBULK response
MaxRows == 2
\* most rows the agent gives over a whole run
MaxBindings == 3
\* most retries --continue-on-errors is given when the retry advance is
\* run on its own
MaxAdvBudget == 8

\* ------------------------------------------------------------ identifiers

Min(a, b) == IF a <= b THEN a ELSE b

\* tuple comparison of two OIDs, a < b: the first differing component
\* decides, a proper prefix is smaller
OidLT(a, b) ==
    \E k \in 1..(Min(Len(a), Len(b)) + 1) :
        /\ \A j \in 1..(k - 1) : a[j] = b[j]
        /\ \/ k > Len(a) /\ k <= Len(b)
           \/ k <= Len(a) /\ k <= Len(b) /\ a[k] < b[k]

\* oid >= stopOID
OidGE(a, b) == ~OidLT(a, b)

\* nextOID[:-n]
DropLast(s, n) == SubSeq(s, 1, Len(s) - n)

\* the OIDs the agent answers with
AgentOids == { <<1, 3, 6, 1>>, <<1, 3, 6, 2>>, <<1, 3, 7>> }

\* the OIDs handed to the retry advance on its own
AdvanceOids ==
    { <<1, 3>>, <<1, 3, 6>>, <<1, 3, 6, 0>>, <<1, 3, 6, 1>>, <<0, 0, 0, 0>>,
      <<1, 3, 6, 2, 0>>, <<1, 3, 6, 0, 5>>, <<1, 3, 6, 1, 2, 0>> }

\* one var-bind of a response row, its value plain data or a sentinel
\* (NoSuchObject, NoSuchInstance, EndOfMibView): data at each OID, and a
\* sentinel at the second
Bindings ==
    [oid : AgentOids, val : { "data" }] \cup
    [oid : { <<1, 3, 6, 2>> }, val : { "sentinel" }]

\* what dataFileHandler.format does for one var-bind: returns a line, or
\* raises MoreDataNotification, NoDataNotification or another SnmpsimError
Outcomes == { "Line", "MoreData", "NoData", "FormatError" }

\* errorStatus of a response: 0 noError, 2 noSuchName, 5 genErr
Statuses == { 0, 2, 5 }

\* startOID = univ.ObjectIdentifier('1.3.6'), or --start-oid
StartOids == { <<1, 3, 6>> }

\* stopOID = None, or --stop-oid
StopOids == { <<>>, <<1, 3, 7>> }

\* ----------------------------------------------------------------- state

VARIABLES
    continueOnErrors,   \* --continue-on-errors, the retry budget
    getBulkFlag,        \* --use-getbulk
    startOID,
    stopOID,
    variationModule,    \* TRUE when a variation module is loaded
    floorDiv,           \* TRUE when `/` on two ints floors (Python 2)
    cbCtx,              \* total, count, errors, iteration, reqTime, retries, lastOID
    cb,                 \* the running cbFun: where it is (in the loop, or
                        \* asleep in it), the rows left, stopFlag, the
                        \* restart polls it has sent
    outputFile,         \* the records written, in order
    pending,            \* the polls sent and not yet answered, in order sent
    phase,              \* "running", then "done" once the finally block ran
    clock,              \* responses handled so far (time.time())
    nRows,              \* rows the agent has given so far
    agent,              \* what the agent has answered so far, summed up
    shutdown,           \* what the finally block of main() has done
    ev                  \* the last event: what came in and what was done

vars == << continueOnErrors, getBulkFlag, startOID, stopOID, variationModule,
           floorDiv, cbCtx, cb, outputFile, pending, phase, clock, nRows, agent,
           shutdown, ev >>

config == << continueOnErrors, getBulkFlag, startOID, stopOID, variationModule,
             floorDiv >>

\* ------------------------------------------------------- the retry advance

\* (continueOnErrors - cbCtx['retries']) * 10 / continueOnErrors > 5, where
\* `/` floors under Python 2 and is the true quotient under Python 3
ConsumedOverHalf(budget, retries, fdiv) ==
    LET x == (budget - retries) * 10
    IN  IF fdiv THEN (x \div budget) > 5
        ELSE IF budget > 0 THEN x > 5 * budget
        ELSE x < 5 * budget

\* Advance with a last component of 0 bumped like any other
Advance_NoCarry(nextOID, retries, budget, fdiv) ==
    LET n == Len(nextOID)
    IN  IF n < 4 THEN nextOID
        ELSE IF ConsumedOverHalf(budget, retries, fdiv)
            THEN DropLast(nextOID, 2) \o << nextOID[n - 1] + 1 >>
        ELSE DropLast(nextOID, 1) \o << nextOID[n] + 1 >>

\* Advance with the coarse skip dropping the last component and bumping
\* nothing
Advance_NoBump(nextOID, retries, budget, fdiv) ==
    LET n == Len(nextOID)
    IN  IF n < 4 THEN nextOID
        ELSE IF ConsumedOverHalf(budget, retries, fdiv)
            THEN DropLast(nextOID, 2) \o << nextOID[n - 1] >>
        ELSE IF nextOID[n] # 0
            THEN DropLast(nextOID, 1) \o << nextOID[n] + 1 >>
        ELSE DropLast(nextOID, 2) \o << nextOID[n - 1] + 1, 0 >>

\* "fuzzy logic of walking a broken OID": the OID to retry with
Advance(nextOID, retries, budget, fdiv) ==
    LET n == Len(nextOID)
    IN  IF n < 4 THEN nextOID
        ELSE IF ConsumedOverHalf(budget, retries, fdiv)
            THEN DropLast(nextOID, 2) \o << nextOID[n - 1] + 1 >>
        ELSE IF nextOID[n] # 0
            THEN DropLast(nextOID, 1) \o << nextOID[n] + 1 >>
        ELSE DropLast(nextOID, 2) \o << nextOID[n - 1] + 1, 0 >>

\* ------------------------------------------------------------ the emitter

\* formatValue without its stopFlag branch
FormatValue_NoStop(hook, stopFlag, hookRes) ==
    IF hook THEN hookRes ELSE "Line"

\* SnmprecRecordMixIn.formatValue: with a variation module its 'record'
\* handler decides (hookRes); without one a set stopFlag raises
\* NoDataNotification, and anything else is a line
FormatValue(hook, stopFlag, hookRes) ==
    IF hook THEN hookRes
    ELSE IF stopFlag THEN "NoData"
    ELSE "Line"

\* the record formatValue returns for a var-bind: with a variation module
\* the triple its 'record' handler returned, whatever that is; without one
\* the var-bind's own OID and value
HookRecord == [oid |-> << >>, val |-> "varied"]

Record(hook, b) == IF hook THEN HookRecord ELSE b

\* ----------------------------------------------------------- the callback

\* the error test without the noSuchName exception
IsError_NoSuchName(errInd, status) == status # 0 \/ errInd

\* errorStatus and errorStatus != 2 or errorIndication
IsError(errInd, status) == (status # 0 /\ status # 2) \/ errInd

\* the "EOM" test without its test of the value
StopFlagAfter_NoSentinel(sf, oid, val, stop) ==
    IF stop # <<>> /\ OidGE(oid, stop) THEN TRUE
    ELSE sf

\* the "EOM" test of one var-bind: the stopFlag after it, given the one before
StopFlagAfter(sf, oid, val, stop) ==
    IF stop # <<>> /\ OidGE(oid, stop) THEN TRUE
    ELSE IF val = "sentinel" THEN TRUE
    ELSE sf

\* the restart poll asking for the OID MoreDataNotification was raised on
RestartTarget_LastSeen(start, oid, lastOID) == oid

\* the OID the poll sent on MoreDataNotification asks for
RestartTarget(start, oid, lastOID) == start

\* no var-bind
NoBinding == [oid |-> << >>, val |-> "none"]

\* GiveUp that sends one more poll, from lastOID
GiveUp_Continue(ctx) ==
    [ctx |-> [ctx EXCEPT !.errors = ctx.errors + 1],
     sent |-> << ctx.lastOID >>, from |-> << >>]

\* GiveUp that leaves the error uncounted
GiveUp_Uncounted(ctx) ==
    [ctx |-> ctx, sent |-> << >>, from |-> << >>]

\* an error with no retries left: it is counted and logged, no poll is sent
\* and cbFun returns None
GiveUp(ctx) ==
    [ctx |-> [ctx EXCEPT !.errors = ctx.errors + 1], sent |-> << >>,
     from |-> << >>]

\* Retry that does not use up a retry
Retry_Unmetered(ctx, rows, budget, fdiv) ==
    LET failed  == IF rows # << >> THEN rows[Len(rows)].oid
                   ELSE ctx.lastOID
        nextOID == Advance(failed, ctx.retries, budget, fdiv)
    IN  [ctx |-> [ctx EXCEPT !.lastOID = nextOID,
                             !.errors = ctx.errors + 1],
         sent |-> << nextOID >>, from |-> failed]

\* Retry going on from lastOID whatever rows the response has
Retry_FromLastOID(ctx, rows, budget, fdiv) ==
    LET failed  == ctx.lastOID
        nextOID == Advance(failed, ctx.retries, budget, fdiv)
    IN  [ctx |-> [ctx EXCEPT !.retries = ctx.retries - 1,
                             !.lastOID = nextOID,
                             !.errors = ctx.errors + 1],
         sent |-> << nextOID >>, from |-> failed]

\* Retry counting the rows of the failed response
Retry_CountsRows(ctx, rows, budget, fdiv) ==
    LET failed  == IF rows # << >> THEN rows[Len(rows)].oid
                   ELSE ctx.lastOID
        nextOID == Advance(failed, ctx.retries, budget, fdiv)
    IN  [ctx |-> [ctx EXCEPT !.retries = ctx.retries - 1,
                             !.lastOID = nextOID,
                             !.errors = ctx.errors + 1,
                             !.count = ctx.count + Len(rows),
                             !.total = ctx.total + Len(rows)],
         sent |-> << nextOID >>, from |-> failed]

\* an error with retries left: the retry goes on from the OID of the last
\* row, or from lastOID when there is no row (from); the advanced OID is
\* polled (sent) and becomes lastOID, a retry is used up, the error is
\* counted
Retry(ctx, rows, budget, fdiv) ==
    LET failed  == IF rows # << >> THEN rows[Len(rows)].oid
                   ELSE ctx.lastOID
        nextOID == Advance(failed, ctx.retries, budget, fdiv)
    IN  [ctx |-> [ctx EXCEPT !.retries = ctx.retries - 1,
                             !.lastOID = nextOID,
                             !.errors = ctx.errors + 1],
         sent |-> << nextOID >>, from |-> failed]

\* the last row of a response, if it has one
LastRow(rows) == IF rows # << >> THEN rows[Len(rows)] ELSE NoBinding

\* OnError without the test of the retries left in the second branch
OnError_AlwaysRetry(ctx, errInd, rows, budget, fdiv) ==
    IF errInd /\ ctx.retries = 0 THEN GiveUp(ctx)
    ELSE Retry(ctx, rows, budget, fdiv)

\* the error branches of cbFun, which return before the loop: the walk state
\* after them (ctx), the retry poll sent, if any (sent), and the OID the
\* retry went on from (from)
OnError(ctx, errInd, rows, budget, fdiv) ==
    IF errInd /\ ctx.retries = 0 THEN GiveUp(ctx)
    ELSE IF ctx.retries # 0 THEN Retry(ctx, rows, budget, fdiv)
    ELSE GiveUp(ctx)

\* OnSuccess setting the retries back to the budget
OnSuccess_HealFully(ctx, rows, budget) ==
    [ctx EXCEPT !.retries = budget,
                !.lastOID = IF rows # << >> THEN rows[Len(rows)].oid
                            ELSE ctx.lastOID]

\* OnSuccess healing the retries whatever they are
OnSuccess_AlwaysHeal(ctx, rows, budget) ==
    [ctx EXCEPT !.retries = ctx.retries + 1,
                !.lastOID = IF rows # << >> THEN rows[Len(rows)].oid
                            ELSE ctx.lastOID]

\* a clean response, up to the loop: the retries heal by one and lastOID
\* becomes the OID of the last row
OnSuccess(ctx, rows, budget) ==
    [ctx EXCEPT !.retries = IF budget # ctx.retries THEN ctx.retries + 1
                            ELSE ctx.retries,
                !.lastOID = IF rows # << >> THEN rows[Len(rows)].oid
                            ELSE ctx.lastOID]

\* OnRow with MoreDataNotification setting total to 0 along with count
OnRow_ResetTotal(ctx, res) ==
    CASE res = "MoreData" ->
             [ctx EXCEPT !.count = 0, !.total = 0,
                         !.iteration = ctx.iteration + 1]
      [] res = "Line" ->
             [ctx EXCEPT !.count = ctx.count + 1, !.total = ctx.total + 1]
      [] OTHER -> ctx

\* OnRow counting a var-bind that NoDataNotification was raised for
OnRow_CountSkipped(ctx, res) ==
    CASE res = "MoreData" ->
             [ctx EXCEPT !.count = 0, !.iteration = ctx.iteration + 1]
      [] res \in { "Line", "NoData" } ->
             [ctx EXCEPT !.count = ctx.count + 1, !.total = ctx.total + 1]
      [] OTHER -> ctx

\* OnRow with MoreDataNotification counting the iteration twice
OnRow_TwoIterations(ctx, res) ==
    CASE res = "MoreData" ->
             [ctx EXCEPT !.count = 0, !.iteration = ctx.iteration + 2]
      [] res = "Line" ->
             [ctx EXCEPT !.count = ctx.count + 1, !.total = ctx.total + 1]
      [] OTHER -> ctx

\* one pass of the loop over the var-binds, formatted with result res: the
\* counters after it
OnRow(ctx, res) ==
    CASE res = "MoreData" ->
             [ctx EXCEPT !.count = 0, !.iteration = ctx.iteration + 1]
      [] res = "Line" ->
             [ctx EXCEPT !.count = ctx.count + 1, !.total = ctx.total + 1]
      [] OTHER -> ctx

\* --------------------------------------------------------------- the agent

\* all sequences over S of length lo..hi
SeqsOf(S, lo, hi) == UNION { [1..k -> S] : k \in lo..hi }

\* the stop condition of one var-bind, as the walk is told to stop
AtStop(b, stop) == (stop # <<>> /\ OidGE(b.oid, stop)) \/ b.val = "sentinel"

\* the index of the first var-bind of rows at the stop condition, or
\* Len(rows) + 1
FirstStop(rows, stop) ==
    LET S == { i \in 1..Len(rows) : AtStop(rows[i], stop) }
    IN  IF S = {} THEN Len(rows) + 1
        ELSE CHOOSE i \in S : \A j \in S : i <= j

\* a walk that is not, or no more, a clean walk
NotClean == [clean |-> FALSE, below |-> 0, stopGiven |-> FALSE]

\* the agent's answers summed up, for as long as the walk is a clean walk
\* (clean): no response was an error, no response came after the var-bind
\* at the stop condition was given, and up to that var-bind every var-bind
\* was beyond the one before it, the first of a response beyond the OID
\* polled.  below counts the var-binds given before it, stopGiven tells that
\* it was given
AgentAfter(a, target, errInd, status, rows, stop) ==
    LET k == FirstStop(rows, stop)
        upto == Min(k, Len(rows))
        ordered == \A j \in 1..upto :
                       OidLT(IF j = 1 THEN target ELSE rows[j - 1].oid,
                             rows[j].oid)
    IN  IF ~a.clean \/ IsError(errInd, status) \/ a.stopGiven \/ ~ordered
        THEN NotClean
        ELSE [clean |-> TRUE, below |-> a.below + (k - 1),
              stopGiven |-> k <= Len(rows)]

\* ------------------------------------------------------------ the actions

\* the record of an event: the poll answered (target), what came in (the
\* error indication, the status, the number of rows), the counters before it
\* (pre), for a retry the OID the retry went on from (from), for a pass of
\* the loop the var-bind, the stopFlag handed to the formatter and the
\* result, the polls sent and the value returned to the engine, and the
\* restart polls cbFun had sent before
Event(kind, target, errInd, status, n, from, b, sf, res, sent, ret) ==
    [kind |-> kind, target |-> target, errInd |-> errInd, status |-> status,
     n |-> n, from |-> from, restarts |-> cb.restarts,
     pre |-> [retries |-> cbCtx.retries, errors |-> cbCtx.errors,
              count |-> cbCtx.count, total |-> cbCtx.total,
              iteration |-> cbCtx.iteration, reqTime |-> cbCtx.reqTime,
              nPending |-> Len(pending), written |-> Len(outputFile),
              lastOID |-> cbCtx.lastOID],
     b |-> b, stopFlag |-> sf, res |-> res, sent |-> sent, ret |-> ret]

\* the finally block with the variation module's shutdown handler called
\* outside of try/except: a failure of it leaves the block
FinallyBlock_Unguarded(hook, fails) ==
    [calls |-> IF hook THEN 1 ELSE 0, failed |-> hook /\ fails,
     reported |-> ~(hook /\ fails), closed |-> ~(hook /\ fails)]

\* the finally block of main(): with a variation module its shutdown
\* handler is called, once, and an exception of it (fails) is logged; then
\* the counters are logged and the output file is flushed and closed
FinallyBlock(hook, fails) ==
    [calls |-> IF hook THEN 1 ELSE 0, failed |-> hook /\ fails,
     reported |-> TRUE, closed |-> TRUE]

\* before the finally block
NotShutDown ==
    [calls |-> 0, failed |-> FALSE, reported |-> FALSE, closed |-> FALSE]

Idle == [pc |-> "idle", rest |-> << >>, stopFlag |-> FALSE, restarts |-> 0]

\* main() up to runDispatcher(): the options, cbCtx and the first poll
Init ==
    /\ continueOnErrors \in 0..MaxBudget
    /\ getBulkFlag \in BOOLEAN
    /\ startOID \in StartOids
    /\ stopOID \in StopOids
    /\ variationModule \in BOOLEAN
    /\ floorDiv = FALSE
    /\ cbCtx = [total |-> 0, count |-> 0, errors |-> 0, iteration |-> 0,
                reqTime |-> 0, retries |-> continueOnErrors,
                lastOID |-> startOID]
    /\ cb = Idle
    /\ outputFile = << >>
    /\ pending = << startOID >>
    /\ phase = "running"
    /\ clock = 0
    /\ nRows = 0
    /\ agent = [clean |-> ~variationModule, below |-> 0,
                stopGiven |-> FALSE]
    /\ shutdown = NotShutDown
    /\ ev = [kind |-> "start", target |-> << >>, errInd |-> FALSE,
             status |-> 0, n |-> 0, from |-> << >>, restarts |-> 0,
             pre |-> [retries |-> continueOnErrors, errors |-> 0,
                      count |-> 0, total |-> 0, iteration |-> 0,
                      reqTime |-> 0, nPending |-> 0, written |-> 0,
                      lastOID |-> cbCtx.lastOID],
             b |-> NoBinding, stopFlag |-> FALSE, res |-> "none",
             sent |-> << >>, ret |-> FALSE]

\* pending without its i-th poll
Without(q, i) == SubSeq(q, 1, i - 1) \o SubSeq(q, i + 1, Len(q))

\* the responses the agent may give now: at most one row to GETNEXT, at most
\* MaxRows to GETBULK
Tables ==
    SeqsOf(Bindings, 0, Min(IF getBulkFlag THEN MaxRows ELSE 1,
                            MaxBindings - nRows))

\* the rows that may come with an error: none or one, its value plain data
\* (cbFun reads the OID of the last row only)
ErrorTables ==
    SeqsOf({ b \in Bindings : b.val = "data" }, 0,
           Min(1, MaxBindings - nRows))

\* the engine calls cbFun with an error: a timeout or an error status.  cbFun
\* counts it, sends the retry poll if retries are left, and returns None, so
\* the engine does not go on with this poll's chain
ErrorResponse ==
    /\ phase = "running" /\ cb.pc = "idle"
    /\ clock < MaxResponses
    /\ \E i \in DOMAIN pending, errInd \in BOOLEAN, status \in Statuses :
       \E rows \in ErrorTables :
          /\ IsError(errInd, status)
          /\ LET r == OnError(cbCtx, errInd, rows, continueOnErrors, floorDiv)
             IN  /\ cbCtx' = r.ctx
                 /\ pending' = Without(pending, i) \o r.sent
                 /\ ev' = Event("error", pending[i], errInd, status,
                                Len(rows), r.from, LastRow(rows), FALSE,
                                "none", r.sent, FALSE)
          /\ nRows' = nRows + Len(rows)
          /\ agent' = AgentAfter(agent, pending[i], errInd, status, rows,
                                 stopOID)
    /\ clock' = clock + 1
    /\ UNCHANGED << cb, outputFile, phase, shutdown >>
    /\ UNCHANGED config

\* the engine calls cbFun with a clean response (status 0, or 2): cbFun
\* heals the retries, notes lastOID and enters the loop with stopFlag False
CleanResponse ==
    /\ phase = "running" /\ cb.pc = "idle"
    /\ clock < MaxResponses
    /\ \E i \in DOMAIN pending, status \in Statuses :
       \E rows \in Tables :
          /\ ~IsError(FALSE, status)
          /\ cbCtx' = OnSuccess(cbCtx, rows, continueOnErrors)
          /\ cb' = [pc |-> "loop", rest |-> rows, stopFlag |-> FALSE,
                    restarts |-> 0]
          /\ pending' = Without(pending, i)
          /\ ev' = Event("enter", pending[i], FALSE, status, Len(rows),
                         << >>, NoBinding, FALSE, "none", << >>, FALSE)
          /\ nRows' = nRows + Len(rows)
          /\ agent' = AgentAfter(agent, pending[i], FALSE, status, rows,
                                 stopOID)
    /\ clock' = clock + 1
    /\ UNCHANGED << outputFile, phase, shutdown >>
    /\ UNCHANGED config

\* one pass of the loop: the next var-bind is tested for the stop condition
\* and formatted; a line is written, MoreDataNotification restarts the walk
\* from startOID and sets stopFlag, the other results skip the var-bind.
\* When MoreDataNotification has a period, cbFun first sleeps, in the
\* handler, the counters set and the poll not yet sent
Row ==
    /\ phase = "running" /\ cb.pc = "loop" /\ cb.rest # << >>
    /\ \E hookRes \in (IF variationModule THEN Outcomes ELSE { "Line" }) :
       \E period \in (IF hookRes = "MoreData" THEN BOOLEAN ELSE { FALSE }) :
          LET b   == Head(cb.rest)
              sf  == StopFlagAfter(cb.stopFlag, b.oid, b.val, stopOID)
              res == FormatValue(variationModule, sf, hookRes)
              sent == IF res = "MoreData" /\ ~period
                      THEN << RestartTarget(startOID, b.oid, cbCtx.lastOID) >>
                      ELSE << >>
          IN  /\ cbCtx' = OnRow(cbCtx, res)
              /\ outputFile' = IF res = "Line"
                               THEN Append(outputFile,
                                           Record(variationModule, b))
                               ELSE outputFile
              /\ pending' = pending \o sent
              /\ cb' = IF period
                       THEN [pc |-> "sleep", rest |-> cb.rest,
                             stopFlag |-> sf, restarts |-> cb.restarts]
                       ELSE [pc |-> "loop", rest |-> Tail(cb.rest),
                             stopFlag |-> (res = "MoreData") \/ sf,
                             restarts |-> cb.restarts + Len(sent)]
              /\ ev' = Event(IF period THEN "sleep" ELSE "row", << >>,
                             FALSE, 0, 0, << >>, b, sf, res, sent, FALSE)
    /\ UNCHANGED << phase, clock, nRows, agent, shutdown >>
    /\ UNCHANGED config

\* time.sleep(period) returns: the MoreDataNotification handler sends the
\* restart poll and sets stopFlag, and the loop goes on
Wake ==
    /\ phase = "running" /\ cb.pc = "sleep"
    /\ LET b    == Head(cb.rest)
           sent == << RestartTarget(startOID, b.oid, cbCtx.lastOID) >>
       IN  /\ pending' = pending \o sent
           /\ cb' = [pc |-> "loop", rest |-> Tail(cb.rest),
                     stopFlag |-> TRUE, restarts |-> cb.restarts + 1]
           /\ ev' = [ev EXCEPT !.kind = "row", !.sent = sent]
    /\ UNCHANGED << cbCtx, outputFile, phase, clock, nRows, agent, shutdown >>
    /\ UNCHANGED config

\* the loop is over: cbFun notes the request time and returns not stopFlag;
\* on True the engine sends the next poll of the chain, from the last row
Return ==
    /\ phase = "running" /\ cb.pc = "loop" /\ cb.rest = << >>
    /\ cbCtx' = [cbCtx EXCEPT !.reqTime = clock]
    /\ pending' = pending \o
           (IF ~cb.stopFlag THEN << cbCtx.lastOID >> ELSE << >>)
    /\ cb' = Idle
    /\ ev' = Event("return", << >>, FALSE, 0, 0, << >>, NoBinding,
                   cb.stopFlag, "none",
                   IF ~cb.stopFlag THEN << cbCtx.lastOID >> ELSE << >>,
                   ~cb.stopFlag)
    /\ UNCHANGED << outputFile, phase, clock, nRows, agent, shutdown >>
    /\ UNCHANGED config

\* the finally block of main(): the variation module is shut down, the
\* counters are summed up and reported, the output file is flushed and closed
Finally(how) ==
    /\ phase' = "done"
    /\ \E fails \in BOOLEAN :
          shutdown' = FinallyBlock(variationModule, fails)
    /\ cbCtx' = [cbCtx EXCEPT !.total = cbCtx.total + cbCtx.count]
    /\ ev' = Event(how, << >>, FALSE, 0, 0, << >>, NoBinding, FALSE,
                   "none", << >>, FALSE)
    /\ UNCHANGED << cb, outputFile, pending, clock, nRows, agent >>
    /\ UNCHANGED config

\* runDispatcher() returns: no poll is outstanding
DispatcherDone ==
    /\ phase = "running" /\ cb.pc = "idle"
    /\ pending = << >>
    /\ Finally("finished")

\* KeyboardInterrupt ends runDispatcher() while the walk is under way
Interrupt ==
    /\ phase = "running"
    /\ pending # << >> \/ cb.pc # "idle"
    /\ Finally("interrupted")

Next ==
    \/ ErrorResponse
    \/ CleanResponse
    \/ Row
    \/ Wake
    \/ Return
    \/ DispatcherDone
    \/ Interrupt

Spec == Init /\ [][Next]_vars

\* ------------------------------------------- the retry advance on its own

\* a walk about to meet a failure: any budget from 1, any retries left of
\* it, either quotient, lastOID any of AdvanceOids
InitAdvance ==
    /\ continueOnErrors \in 1..MaxAdvBudget
    /\ getBulkFlag = FALSE
    /\ startOID \in StartOids
    /\ stopOID = << >>
    /\ variationModule = FALSE
    /\ floorDiv \in BOOLEAN
    /\ \E r \in 1..continueOnErrors, o \in AdvanceOids :
          /\ cbCtx = [total |-> 0, count |-> 0, errors |-> 0,
                      iteration |-> 0, reqTime |-> 0, retries |-> r,
                      lastOID |-> o]
          /\ pending = << o >>
    /\ cb = Idle
    /\ outputFile = << >>
    /\ phase = "running"
    /\ clock = 0
    /\ nRows = 0
    /\ agent = NotClean
    /\ shutdown = NotShutDown
    /\ ev = [kind |-> "start", target |-> << >>, errInd |-> FALSE,
             status |-> 0, n |-> 0, from |-> << >>, restarts |-> 0,
             pre |-> [retries |-> cbCtx.retries, errors |-> 0,
                      count |-> 0, total |-> 0, iteration |-> 0,
                      reqTime |-> 0, nPending |-> 0, written |-> 0,
                      lastOID |-> cbCtx.lastOID],
             b |-> NoBinding, stopFlag |-> FALSE, res |-> "none",
             sent |-> << >>, ret |-> FALSE]

\* the poll fails, with no row or with one row of AdvanceOids: cbFun's error
\* branches run
FailedPoll ==
    /\ phase = "running" /\ cb.pc = "idle"
    /\ pending # << >>
    /\ clock < 1
    /\ \E errInd \in BOOLEAN, status \in { 0, 5 } :
       \E rows \in SeqsOf([oid : AdvanceOids, val : { "data" }], 0, 1) :
          /\ IsError(errInd, status)
          /\ LET r == OnError(cbCtx, errInd, rows, continueOnErrors, floorDiv)
             IN  /\ cbCtx' = r.ctx
                 /\ pending' = Tail(pending) \o r.sent
                 /\ ev' = Event("error", Head(pending), errInd, status,
                                Len(rows), r.from, LastRow(rows), FALSE,
                                "none", r.sent, FALSE)
          /\ nRows' = nRows + Len(rows)
    /\ clock' = clock + 1
    /\ UNCHANGED << cb, outputFile, phase, agent, shutdown >>
    /\ UNCHANGED config

NextAdvance == FailedPoll

SpecAdvance == InitAdvance /\ [][NextAdvance]_vars

\* ------------------------------------- an agent that answers with errors

\* every poll is answered, and with an error; runDispatcher() returns once
\* no poll is outstanding
NextErrors ==
    \/ ErrorResponse
    \/ DispatcherDone

SpecErrors == Init /\ [][NextErrors]_vars /\ WF_vars(NextErrors)

\* ------------------------------------------------------------- the claims

\* an event that is cbFun called with a response
IsResponse == ev.kind \in { "error", "enter" }

\* a pass of the loop in which MoreDataNotification was raised
IsMoreData == ev.kind = "row" /\ ev.res = "MoreData"

\* MoreDataNotification was raised and cbFun sleeps for its period
IsPause == ev.kind = "sleep" /\ cb.pc = "sleep"

\* C1: a clean walk with the snmprec format and no variation module: once
\* cbFun has returned, as many records are written as var-binds were given
\* before the one at the stop condition, no error is counted, and once that
\* var-bind was given no poll is outstanding
C1_CleanWalk ==
    (agent.clean /\ ~variationModule /\ cb.pc = "idle") =>
        /\ Len(outputFile) = agent.below
        /\ cbCtx.errors = 0
        /\ (agent.stopGiven => pending = << >>)

\* C1's case: two var-binds below the stop OID, then one at it, and the
\* walk has ended
C1_Witness ==
    /\ agent.clean /\ agent.stopGiven /\ agent.below = 2
    /\ stopOID # << >>
    /\ Len(outputFile) = 2
    /\ phase = "done" /\ ev.kind = "finished"

\* C2: once the walk has ended, with no poll outstanding, the total
\* reported is the number of records written
C2_FinalTotal ==
    (phase = "done" /\ ev.kind = "finished") =>
        cbCtx.total = Len(outputFile)

\* C3: the stopFlag handed to the formatter for a var-bind is true exactly
\* when a stop OID is set and the var-bind's OID is at or beyond it, or its
\* value is a sentinel
C3_StopFlagIff ==
    ev.kind = "row" =>
        (ev.stopFlag <=>
            \/ stopOID # << >> /\ ~OidLT(ev.b.oid, stopOID)
            \/ ev.b.val = "sentinel")

\* C4: the OID a retry polls is beyond the OID it went on from when that
\* has four components or more, and is that OID when it has fewer
C4_AdvanceForward ==
    (ev.kind = "error" /\ ev.pre.retries >= 1) =>
        /\ ev.sent = << cbCtx.lastOID >>
        /\ IF Len(ev.from) >= 4 THEN OidLT(ev.from, cbCtx.lastOID)
           ELSE cbCtx.lastOID = ev.from

\* C4's case: a coarse skip, from 1.3.6.1.2.0 to 1.3.6.1.3
C4_Witness ==
    /\ ev.kind = "error" /\ ev.pre.retries >= 1
    /\ ev.from = << 1, 3, 6, 1, 2, 0 >>
    /\ ev.sent = << << 1, 3, 6, 1, 3 >> >>

\* C5: the retries left are never below 0 and never above the budget
C5_RetriesInRange ==
    cbCtx.retries \in 0..continueOnErrors

\* C5's case: the budget is used up, and a clean response has healed one
\* retry of it
C5_Witness ==
    /\ continueOnErrors = 2
    /\ cbCtx.errors = 2
    /\ ev.kind = "enter" /\ ev.pre.retries = 0 /\ cbCtx.retries = 1

C7_ErrorsCounted ==
    /\ IsResponse =>
          IF ev.errInd \/ ev.status \notin { 0, 2 }
          THEN cbCtx.errors = ev.pre.errors + 1
          ELSE cbCtx.errors = ev.pre.errors
    /\ ev.kind \in { "row", "return", "finished", "interrupted" } =>
          cbCtx.errors = ev.pre.errors

\* C7's case: budget 2 and three failed responses, the last a timeout with
\* no retry left
C7_Witness ==
    /\ continueOnErrors = 2
    /\ ev.kind = "error" /\ ev.errInd /\ ev.pre.retries = 0
    /\ cbCtx.errors = 3 /\ clock = 3

\* C8: a response with status 2 and no error indication is a clean one: no
\* error is counted, no retry is used up, no poll is sent, and the loop is
\* entered with its rows
C8_NoSuchNameIsClean ==
    (IsResponse /\ ev.status = 2 /\ ~ev.errInd) =>
        /\ ev.kind = "enter"
        /\ cbCtx.errors = ev.pre.errors
        /\ cbCtx.retries >= ev.pre.retries
        /\ ev.sent = << >>
        /\ cb.pc = "loop" /\ Len(cb.rest) = ev.n

\* C8's case: status 2 with a row, while a retry was used up
C8_Witness ==
    /\ ev.kind = "enter" /\ ev.status = 2 /\ ev.n >= 1
    /\ ev.pre.errors = 1 /\ ev.pre.retries < continueOnErrors

\* C9: MoreDataNotification counts one iteration and sets count to 0; no
\* other event changes the iteration
C9_IterationPerMoreData ==
    /\ (IsMoreData \/ ev.kind = "sleep") =>
          cbCtx.iteration = ev.pre.iteration + 1 /\ cbCtx.count = 0
    /\ (~IsMoreData /\ ev.kind \notin { "start", "sleep" }) =>
          cbCtx.iteration = ev.pre.iteration

\* C9's case: the second MoreDataNotification of a walk, after a line of
\* the second iteration
C9_Witness ==
    /\ IsMoreData
    /\ ev.pre.iteration = 1 /\ ev.pre.count = 1
    /\ cbCtx.iteration = 2 /\ cbCtx.count = 0

\* C10: the poll sent on MoreDataNotification asks for startOID, with
\* GETBULK and with GETNEXT, and cbFun then returns false, so that no poll
\* is sent from the last row
C10_RestartFromStart ==
    /\ IsMoreData =>
          /\ ev.sent = << startOID >>
          /\ pending # << >> /\ pending[Len(pending)] = startOID
    /\ (ev.kind = "return" /\ ev.restarts >= 1) =>
          ev.sent = << >> /\ ~ev.ret

\* C10's case: GETBULK, MoreDataNotification was raised on a var-bind that
\* is not the last row (a record was written after it), cbFun has returned,
\* and the one poll outstanding asks for startOID
C10_Witness ==
    /\ ev.kind = "return" /\ ev.restarts = 1 /\ getBulkFlag
    /\ cbCtx.lastOID # startOID
    /\ cbCtx.iteration = 1 /\ cbCtx.count = 1 /\ Len(outputFile) = 1
    /\ pending = << startOID >>

\* a pass of the loop in which the var-bind was skipped: NoDataNotification
\* or another SnmpsimError was raised
IsSkip == ev.kind = "row" /\ ev.res \in { "NoData", "FormatError" }

\* C11: while the walk is under way total is the number of records written;
\* a pass of the loop that writes a record adds one to both, and no other
\* event changes either (MoreDataNotification leaves total alone)
C11_TotalIsWritten ==
    phase = "running" =>
        /\ cbCtx.total = Len(outputFile)
        /\ (ev.kind = "row" /\ ev.res = "Line") =>
              /\ cbCtx.total = ev.pre.total + 1
              /\ Len(outputFile) = ev.pre.written + 1
              /\ outputFile[Len(outputFile)] = Record(variationModule, ev.b)
        /\ (ev.kind # "start" /\ ~(ev.kind = "row" /\ ev.res = "Line")) =>
              /\ cbCtx.total = ev.pre.total
              /\ Len(outputFile) = ev.pre.written

\* C11's case: MoreDataNotification after two records of the first
\* iteration: count is 0 and total still 2
C11_Witness ==
    /\ phase = "running" /\ IsMoreData
    /\ ev.pre.count = 2 /\ cbCtx.count = 0
    /\ cbCtx.total = 2 /\ Len(outputFile) = 2

\* C12: a var-bind skipped on NoDataNotification or on another SnmpsimError
\* writes nothing and leaves total, count and iteration alone; the loop goes
\* on to the rows after it, and the stopFlag cbFun returns on is the one the
\* stop test gave for this var-bind
C12_SkipOnlyBinding ==
    IsSkip =>
        /\ Len(outputFile) = ev.pre.written
        /\ cbCtx.total = ev.pre.total
        /\ cbCtx.count = ev.pre.count
        /\ cbCtx.iteration = ev.pre.iteration
        /\ ev.sent = << >> /\ Len(pending) = ev.pre.nPending
        /\ phase = "running" => (cb.pc = "loop" /\ cb.stopFlag = ev.stopFlag)

\* C12's case: a variation module skips the first var-bind of a GETBULK
\* response on a SnmpsimError, after a record was written, and a row is left
C12_Witness ==
    /\ IsSkip /\ ev.res = "FormatError" /\ variationModule
    /\ ev.pre.written = 1 /\ cb.rest # << >> /\ ~cb.stopFlag

\* C13: once runDispatcher() is left, on its return or on KeyboardInterrupt,
\* the variation module's shutdown handler was called once if there is a
\* module and not at all if there is none, the counters are reported and
\* the output file is flushed and closed, whether or not the handler
\* failed; before that nothing of it is done
C13_GracefulShutdown ==
    /\ phase = "done" =>
          /\ ev.kind \in { "finished", "interrupted" }
          /\ shutdown.calls = (IF variationModule THEN 1 ELSE 0)
          /\ shutdown.reported /\ shutdown.closed
    /\ phase = "running" => shutdown = NotShutDown
    /\ phase \in { "running", "done" }

\* C13's case: KeyboardInterrupt while the poll of a retry is outstanding,
\* and the shutdown handler of the variation module fails
C13_Witness ==
    /\ phase = "done" /\ ev.kind = "interrupted"
    /\ variationModule /\ shutdown.failed /\ shutdown.closed
    /\ cbCtx.errors = 1 /\ cbCtx.retries < continueOnErrors
    /\ pending = << cbCtx.lastOID >>

\* an error that came while a retry was left
IsRetry == ev.kind = "error" /\ ev.pre.retries >= 1

\* the OID a retry is to go on from: the OID of the last row of the failed
\* response, or lastOID as it was when the response has no row
FailedOid == IF ev.n = 0 THEN ev.pre.lastOID ELSE ev.b.oid

\* C14: an error that comes while a retry is left sends one poll, for the
\* advance of the OID of the last row, or of lastOID when there is no row;
\* one retry is used up, lastOID becomes the OID polled, and cbFun returns
\* false, so the polls outstanding are as many as before
C14_RetryPoll ==
    IsRetry =>
        LET resume == Advance(FailedOid, ev.pre.retries, continueOnErrors,
                              floorDiv)
        IN  /\ ev.from = FailedOid
            /\ ev.sent = << resume >> /\ ~ev.ret
            /\ Len(pending) = ev.pre.nPending
            /\ pending[Len(pending)] = resume
            /\ cbCtx.retries = ev.pre.retries - 1
            /\ cbCtx.lastOID = resume

\* C14's case: the failed response has a row, 1.3.6.0.5, other than
\* lastOID, and the retry polls 1.3.6.0.6
C14_Witness ==
    /\ IsRetry /\ ev.n = 1
    /\ ev.b.oid = << 1, 3, 6, 0, 5 >> /\ ev.pre.lastOID = << 1, 3, 6, 1 >>
    /\ pending = << << 1, 3, 6, 0, 6 >> >>

\* C15: an error that comes when no retry is left, an error indication or
\* an error status alike, counts one error, sends no poll, leaves the
\* retries at 0 and returns false
C15_ExhaustedError ==
    (ev.kind = "error" /\ ev.pre.retries = 0) =>
        /\ cbCtx.errors = ev.pre.errors + 1
        /\ cbCtx.retries = 0
        /\ cbCtx.lastOID = ev.pre.lastOID
        /\ ev.sent = << >> /\ ~ev.ret
        /\ Len(pending) = ev.pre.nPending - 1

\* C15's case: status 5 with no error indication, after the one retry of
\* the budget was used up
C15_Witness ==
    /\ ev.kind = "error" /\ ev.pre.retries = 0
    /\ ~ev.errInd /\ ev.status = 5
    /\ continueOnErrors = 1 /\ cbCtx.errors = 2

\* C16: once MoreDataNotification was raised for a var-bind no later
\* var-bind of the response is formatted, and count is 0 when cbFun returns
C16_AbandonAfterMoreData ==
    /\ ev.kind = "row" => ev.restarts = 0
    /\ (ev.kind = "return" /\ ev.restarts >= 1) => cbCtx.count = 0

\* C17: an error writes no record and leaves total, count, iteration and
\* reqTime alone, with or without rows, with or without retries left
C17_ErrorLeavesCounters ==
    ev.kind = "error" =>
        /\ Len(outputFile) = ev.pre.written
        /\ cbCtx.total = ev.pre.total
        /\ cbCtx.count = ev.pre.count
        /\ cbCtx.iteration = ev.pre.iteration
        /\ cbCtx.reqTime = ev.pre.reqTime
        /\ cb = Idle

\* C17's case: an error status with a row, while a retry is left, after a
\* record was written
C17_Witness ==
    /\ ev.kind = "error" /\ ev.n = 1 /\ ~ev.errInd
    /\ ev.pre.retries >= 1
    /\ ev.pre.written = 1 /\ ev.pre.reqTime = 1

\* C18: a clean response heals one retry when fewer than the budget are
\* left and none when all are; an error uses one up when one is left; no
\* other event changes the retries
C18_RetriesHeal ==
    /\ ev.kind = "enter" =>
          cbCtx.retries = (IF ev.pre.retries < continueOnErrors
                           THEN ev.pre.retries + 1 ELSE ev.pre.retries)
    /\ ev.kind = "error" =>
          cbCtx.retries = (IF ev.pre.retries >= 1
                           THEN ev.pre.retries - 1 ELSE ev.pre.retries)
    /\ ev.kind \notin { "enter", "error", "start" } =>
          cbCtx.retries = ev.pre.retries

\* C18's case: of a budget of 2 both retries were used up, and a clean
\* response heals one, not both
C18_Witness ==
    /\ ev.kind = "enter" /\ continueOnErrors = 2
    /\ ev.pre.retries = 0 /\ cbCtx.retries = 1
    /\ ev.pre.errors = 2 /\ ev.n = 1

\* C19: for an OID of four components or more the retry polls: in the
\* coarse case the OID less its last component, the one before it bumped;
\* else, the last component being other than 0, the OID with that bumped;
\* else the OID with the last but one bumped and the last 0; all other
\* components are as they were
C19_AdvanceCases ==
    (IsRetry /\ Len(FailedOid) >= 4) =>
        LET X == FailedOid
            R == cbCtx.lastOID
            n == Len(X)
        IN  IF ConsumedOverHalf(continueOnErrors, ev.pre.retries, floorDiv)
            THEN /\ Len(R) = n - 1
                 /\ \A j \in 1..(n - 2) : R[j] = X[j]
                 /\ R[n - 1] = X[n - 1] + 1
            ELSE IF X[n] # 0
            THEN /\ Len(R) = n
                 /\ \A j \in 1..(n - 1) : R[j] = X[j]
                 /\ R[n] = X[n] + 1
            ELSE /\ Len(R) = n
                 /\ \A j \in 1..(n - 2) : R[j] = X[j]
                 /\ R[n - 1] = X[n - 1] + 1
                 /\ R[n] = 0

\* C19's case: the last component is 0 and less than half of the budget is
\* used up: 1.3.6.2.0 becomes 1.3.6.3.0
C19_Witness ==
    /\ IsRetry /\ FailedOid = << 1, 3, 6, 2, 0 >>
    /\ cbCtx.lastOID = << 1, 3, 6, 3, 0 >>
    /\ continueOnErrors = 4 /\ ev.pre.retries = 3

\* C20: the coarse skip is taken exactly when more than half of the budget
\* was used up before this error: 2 * (budget - retries) > budget
C20_CoarseIffOverHalf ==
    (IsRetry /\ Len(FailedOid) >= 4) =>
        (Len(cbCtx.lastOID) = Len(FailedOid) - 1 <=>
            2 * (continueOnErrors - ev.pre.retries) > continueOnErrors)

\* C22: a clean response whose rows are each beyond the one before, the
\* first beyond the OID polled, does not take lastOID back, the first clean
\* response after a restart included
C22_LastOIDMonotone ==
    (/\ ev.kind = "enter" /\ ev.n >= 1
     /\ \A j \in 1..Len(cb.rest) :
           OidLT(IF j = 1 THEN ev.target ELSE cb.rest[j - 1].oid,
                 cb.rest[j].oid))
        => ~OidLT(cbCtx.lastOID, ev.pre.lastOID)

\* C23: while cbFun waits for the period of a MoreDataNotification, the
\* restart poll not yet sent, the response to a poll that is outstanding
\* can be handled
C23_PauseNotBlocking ==
    (IsPause /\ phase = "running" /\ pending # << >>
             /\ clock < MaxResponses) =>
        ENABLED (ErrorResponse \/ CleanResponse)

\* C24: a var-bind skipped on a SnmpsimError of the formatter counts one
\* error
C24_FormatErrorCounted ==
    (ev.kind = "row" /\ ev.res = "FormatError") =>
        cbCtx.errors = ev.pre.errors + 1

\* C25: between two calls of cbFun at most one poll is outstanding
C25_OneChain ==
    cb.pc = "idle" => Len(pending) <= 1

\* C26: MoreDataNotification sets lastOID back to startOID, so that an
\* error with no row that answers a poll for startOID is retried from
\* startOID
C26_RestartResetsLastOID ==
    /\ IsMoreData => cbCtx.lastOID = startOID
    /\ (IsRetry /\ ev.n = 0 /\ ev.target = startOID) =>
          ev.from = startOID

\* C27: without a variation module a var-bind at the stop condition (its
\* OID at or beyond stopOID, or its value a sentinel) is answered with
\* NoDataNotification, is not written and not counted, and every record
\* written is below stopOID and no sentinel
C27_StopNeverWritten ==
    ~variationModule =>
        /\ \A i \in 1..Len(outputFile) : ~AtStop(outputFile[i], stopOID)
        /\ (ev.kind = "row" /\ AtStop(ev.b, stopOID)) =>
              /\ ev.stopFlag /\ ev.res = "NoData"
              /\ Len(outputFile) = ev.pre.written
              /\ cbCtx.count = ev.pre.count
              /\ cbCtx.total = ev.pre.total

\* C27's case: GETBULK and no stop OID; a record was written and the next
\* var-bind is a sentinel
C27_Witness ==
    /\ ~variationModule /\ getBulkFlag /\ stopOID = << >>
    /\ ev.kind = "row" /\ ev.b.val = "sentinel" /\ ev.res = "NoData"
    /\ Len(outputFile) = 1 /\ cbCtx.count = 1

\* what holds of a walk all of whose responses were errors, with a budget
\* of b: the errors counted are the responses, at most b + 1; each of the
\* first b used up a retry and sent one poll, the one after them sent none;
\* with a budget of 0 the retry branch, and its division, is never run
AllErrorsSoFar ==
    LET b == continueOnErrors
    IN  /\ cbCtx.errors = clock /\ cbCtx.errors <= b + 1
        /\ cbCtx.retries = b - Min(cbCtx.errors, b)
        /\ Len(pending) = (IF cbCtx.errors <= b THEN 1 ELSE 0)
        /\ ev.kind = "error" =>
              /\ Len(ev.sent) = (IF ev.pre.errors < b THEN 1 ELSE 0)
              /\ (b = 0 => ev.from = << >>)
        /\ phase = "done" => cbCtx.errors = b + 1

\* C21: with an agent that answers every poll with an error the walk ends:
\* as many retry polls are sent as the budget has retries, the error after
\* them ends the walk with budget + 1 errors counted and no poll
\* outstanding
C21_AllErrorsTerminate ==
    /\ []AllErrorsSoFar
    /\ <>(phase = "done" /\ cbCtx.errors = continueOnErrors + 1
                          /\ pending = << >>)

\* C21's case: a budget of 2, three errors, the last an error status, and
\* runDispatcher() has returned
C21_Witness ==
    /\ continueOnErrors = 2 /\ cbCtx.errors = 3 /\ cbCtx.retries = 0
    /\ pending = << >>
    /\ phase = "done" /\ ev.kind = "finished"

====
